---- MODULE Spec2Model ----
(***************************************************************************)
(* A model of the LiveLamp firmware (ankurag12/livelamp):                  *)
(*   - the LD2410 radar frame decoder (drivers/ld2410.py),                 *)
(*   - the Neopixel pattern engine (drivers/neopixel_ring.py),             *)
(*   - the actuators, the HTTP handlers and the three uasyncio tasks       *)
(*     (drivers/pump.py, drivers/sma.py, web_server.py, main.py).          *)
(* Each part has its own specification over the shared variables; a        *)
(* specification leaves the variables of the other parts unchanged.        *)
(***************************************************************************)
EXTENDS Integers, Sequences, FiniteSets, TLC

VARIABLES
    \* ---- LD2410 (drivers/ld2410.py) ----
    stream,      \* what the sensor sends in this run (fixed by Init): [kind, bytes,
                 \* payload, valid, at]: the bytes, and the valid frame in them (<<>>:
                 \* none) with the payload it was built from and its offset
    sent,        \* how many bytes of stream have reached the UART so far
    uart_rx,     \* the UART receive FIFO: arrived, not yet read (uart.any() = Len > 0)
    rpc,         \* position of read_data: "idle" or "reading" (inside _read_frame's loop)
    buffer,      \* _read_frame's local bytearray (meaningful while rpc = "reading")
    last_data,   \* LD2410._last_data: a function from key to value
    emitted,     \* history: the frames _read_frame has returned, in order
    call_start,  \* history: how many bytes had been read from the UART when the
                 \* running _read_frame call began (0 while idle)
    ticks,       \* time.ticks_diff(time.ticks_ms(), start_time) of the running
                 \* _read_frame call, where time is modelled (0 otherwise)
    poll_result  \* what the last _read_frame call returned: "frame" or "none"

pollVars == <<ticks, poll_result>>
decVars == <<stream, sent, uart_rx, rpc, buffer, last_data, emitted, call_start, pollVars>>

VARIABLES
    \* ---- NeopixelRing (drivers/neopixel_ring.py) ----
    rgbw,                \* constructor argument: RGBW ring (4 bytes per pixel) or RGB
    np,                  \* the pixel array self.np: index 0..num_leds-1 -> tuple
    color,               \* _color
    white,               \* _white
    pattern,             \* _pattern
    breathe_phase,       \* _breathe_phase, in hundredths of a radian
    fade_current_color,  \* _fade_current_color
    fade_target_color,   \* _fade_target_color
    fade_progress,       \* _fade_progress
    rainbow_offset,      \* _rainbow_offset, degrees
    dream_phase,         \* _dream_phase, in hundredths of a radian
    dream_hue,           \* _dream_hue, in half degrees
    fire_current,        \* _fire_current
    fire_target,         \* _fire_target
    fire_progress,       \* _fire_progress
    renders,             \* history: render_pattern calls so far
    since_set,           \* history: render_pattern calls since the last set_pattern
    target_at_set,       \* history: _fade_target_color at the last set_pattern
    last_set             \* history: <<p, n>> when the last n (counted up to 2)
                         \* operations on the ring were set_pattern(p), else
                         \* <<"none", 0>>

baseVars == <<rgbw, color, white, pattern>>
privVars == <<breathe_phase, fade_current_color, fade_target_color, fade_progress,
              rainbow_offset, dream_phase, dream_hue, fire_current, fire_target,
              fire_progress>>
histVars == <<renders, since_set, target_at_set, last_set>>
ledVars == <<baseVars, np, privVars, histVars>>

VARIABLES
    \* ---- Pump, SMA (drivers/pump.py, drivers/sma.py) ----
    pump_state,     \* Pump._state
    pump_pin,       \* the level of the pump's GPIO pin
    sma_percent,    \* SMA._percent
    sma_duty,       \* the duty last given to the PWM, 0..1023
    \* ---- LiveLamp and WebServer (main.py, web_server.py) ----
    run_pc,         \* LiveLamp.run: "wifi", "running" (inside asyncio.run), "returned"
    sensor_pc,      \* sensor_task: "ready" (due to run its body) or "sleeping"
    pattern_pc,     \* pattern_task: "ready" or "sleeping"
    web_pc,         \* the server: "serving", "responding" (a handler has
                    \* returned, its response is being sent) or "raised"
    sensor_sleep,   \* milliseconds of sensor_task's sleep, 0 when not sleeping
    pattern_sleep,  \* milliseconds of pattern_task's sleep, 0 when not sleeping
    request,        \* the request being answered (NoRequest when there is none)
    response,       \* the response to it
    current         \* the activity the scheduler has resumed and that has not yet
                    \* reached an await, where bodies are modelled step by step:
                    \* "sensor", "pattern", "web" or "none"

actVars == <<pump_state, pump_pin, sma_percent, sma_duty>>
taskVars == <<run_pc, sensor_pc, pattern_pc, web_pc, sensor_sleep, pattern_sleep, current>>
webVars == <<request, response>>
sysVars == <<actVars, taskVars, webVars>>

vars == <<decVars, ledVars, sysVars>>

-----------------------------------------------------------------------------
(* Bounds of the model *)

\* longest run of garbage bytes placed before, between and after frames
MaxGarbage == 1
\* the timeout of a timed _read_frame call, in ticks (a tick is the time the
\* shortest pass of its loop takes)
PollTimeout == 12
\* the bytes the UART's receive buffer holds
RxCapacity == 2
\* longest payload of a frame with a corrupted footer
MaxCorruptLen == 2
\* render_pattern calls explored in the pattern engine's specification
MaxRenders == 2
\* render_pattern calls explored beyond one full fade in the fade specification
MaxExtraRenders == 2
\* in the system specification a read_data call that times out has read this
\* many bytes of the stream
SysSplit == 12

-----------------------------------------------------------------------------
(* drivers/ld2410.py: constants and pure helpers *)

FRAME_HEADER == <<244, 243, 242, 241>>
FRAME_FOOTER == <<248, 247, 246, 245>>

\* Python's b[lo:hi] for 0 <= lo, as a sequence (0-based, hi exclusive, clipped)
Slice(b, lo, hi) ==
    LET h == IF hi > Len(b) THEN Len(b) ELSE hi
    IN  IF lo >= h THEN <<>> ELSE SubSeq(b, lo + 1, h)

\* bytearray.find(pat): the lowest 0-based index where pat occurs, or -1
Find(b, pat) ==
    LET hits == {i \in 0..(Len(b) - Len(pat)) : Slice(b, i, i + Len(pat)) = pat}
    IN  IF hits = {} THEN -1 ELSE CHOOSE i \in hits : \A j \in hits : i <= j

\* int.from_bytes(b, 'little') of a two-byte slice
FromBytesLE(b) ==
    (IF Len(b) >= 1 THEN b[1] ELSE 0) + (IF Len(b) >= 2 THEN 256 * b[2] ELSE 0)

\* length.to_bytes(2, 'little')
ToBytesLE(n) == <<n % 256, (n \div 256) % 256>>

\* the frame _send_command builds around a command/payload
send_command_frame(command) ==
    FRAME_HEADER \o ToBytesLE(Len(command)) \o command \o FRAME_FOOTER

\* a different decoder, for comparison: the frame ends where the first footer
\* pattern after the length field ends, whatever the length field says
ExpectedSizeByFooter(b, header_idx) ==
    LET f == Find(Slice(b, header_idx + 6, Len(b)), FRAME_FOOTER)
    IN  IF f < 0 THEN Len(b) + 1 ELSE header_idx + 6 + f + 4

\* expected_size of the frame whose header is at header_idx (lines 88-91)
ExpectedSize(b, header_idx) ==
    header_idx + 10 + FromBytesLE(Slice(b, header_idx + 4, header_idx + 6))

\* a different decoder, for comparison: no footer test
FooterAnywhere(b, expected_size) ==
    TRUE

\* the footer test of line 94
FooterValid(b, expected_size) ==
    Slice(b, expected_size - 4, expected_size) = FRAME_FOOTER

\* a different decoder, for comparison: the frame is cut from the buffer's start
ReturnedFrameFromStart(b, header_idx, expected_size) ==
    Slice(b, 0, expected_size)

\* the frame returned at line 95
ReturnedFrame(b, header_idx, expected_size) ==
    Slice(b, header_idx, expected_size)

\* the resynchronisation of line 98
Resync(b, header_idx) ==
    Slice(b, header_idx + 4, Len(b))

\* One pass of the loop body after buffer.extend(byte), lines 83-98:
\* [ret |-> TRUE, frame] when a frame is returned, else the buffer to go on with.
frame_check(b) ==
    IF Len(b) >= 10
    THEN LET header_idx == Find(b, FRAME_HEADER) IN
         IF header_idx >= 0 /\ Len(b) >= header_idx + 6
         THEN LET expected_size == ExpectedSize(b, header_idx) IN
              IF Len(b) >= expected_size
              THEN IF FooterValid(b, expected_size)
                   THEN [ret |-> TRUE, buffer |-> b,
                         frame |-> ReturnedFrame(b, header_idx, expected_size)]
                   ELSE [ret |-> FALSE, buffer |-> Resync(b, header_idx), frame |-> <<>>]
              ELSE [ret |-> FALSE, buffer |-> b, frame |-> <<>>]
         ELSE [ret |-> FALSE, buffer |-> b, frame |-> <<>>]
    ELSE [ret |-> FALSE, buffer |-> b, frame |-> <<>>]

FrameKeys == {"presence", "target_state", "moving_distance", "moving_energy",
              "static_distance", "static_energy", "detection_distance"}

\* LD2410.__init__: the initial _last_data (no "presence_gpio" key yet)
InitLastData ==
    [k \in FrameKeys |-> IF k = "presence" THEN FALSE ELSE 0]

\* the dict built at lines 126-134 from a frame (data_start = 6)
Report(frame) ==
    [k \in FrameKeys |->
        CASE k = "presence"           -> frame[9] > 0
          [] k = "target_state"       -> frame[9]
          [] k = "moving_distance"    -> FromBytesLE(Slice(frame, 9, 11))
          [] k = "moving_energy"      -> frame[12]
          [] k = "static_distance"    -> FromBytesLE(Slice(frame, 12, 14))
          [] k = "static_energy"      -> frame[15]
          [] k = "detection_distance" -> FromBytesLE(Slice(frame, 15, 17))]

\* a different read_data, for comparison: any frame of report size is parsed
IsReportAnyTag(frame) ==
    Len(frame) >= 23

\* the tests of lines 113 and 117: does read_data accept the frame as a report
IsReport(frame) ==
    Len(frame) >= 23 /\ frame[7] = 2 /\ frame[8] = 170

\* d with key k set to v (a dict store, adding the key when new)
DictSet(d, k, v) ==
    [x \in (DOMAIN d) \cup {k} |-> IF x = k THEN v ELSE d[x]]

\* read_data after _read_frame returned `frame` (<<>> for None), lines 113-139,
\* with the level `gpio` read from the presence pin
read_data_finish(d, frame, gpio) ==
    DictSet(IF frame # <<>> /\ IsReport(frame) THEN Report(frame) ELSE d,
            "presence_gpio", gpio)

-----------------------------------------------------------------------------
(* The byte streams of the decoder specification *)

\* bytes the line noise is made of: a plain byte and the first header byte
GarbageBytes == {0, 244}

RECURSIVE SeqsUpTo(_, _)
SeqsUpTo(S, n) ==
    IF n = 0 THEN {<<>>}
    ELSE LET shorter == SeqsUpTo(S, n - 1)
         IN  shorter \cup {Append(q, x) : q \in {r \in shorter : Len(r) = n - 1}, x \in S}

Garbage == SeqsUpTo(GarbageBytes, MaxGarbage)

\* a basic target report (type 0x02, head 0xAA ... tail 0x55, check 0x00):
\* state, moving distance/energy, static distance/energy, detection distance
TargetReport(state) == <<2, 170, state, 50, 0, 10, 100, 0, 100, 50, 1, 85, 0>>

\* payloads of the well-formed frames: empty, one holding the footer pattern,
\* one holding the header pattern, reports (one of them with a state byte no
\* target state is encoded by), an engineering-mode report (type 0x01) of the
\* same size, and a target report cut short
Payloads ==
    { <<>>, FRAME_FOOTER, FRAME_HEADER,
      TargetReport(2), TargetReport(0), TargetReport(7),
      <<1, 170, 2, 50, 0, 10, 100, 0, 100, 50, 1, 85, 0>>,
      <<2, 170, 2>> }

\* four bytes where the footer should be
BadFooters == { <<0, 0, 0, 0>>, <<248, 247, 246, 0>>, FRAME_HEADER }

CorruptFrames ==
    { FRAME_HEADER \o ToBytesLE(Len(p)) \o p \o f :
        p \in SeqsUpTo({0}, MaxCorruptLen), f \in BadFooters }

\* the 20 bytes of the documented scenario
ScenarioBytes ==
    <<244, 243, 242, 241, 17, 0, 2, 170, 2, 50, 0, 10, 3, 100, 0, 100,
      248, 247, 246, 245>>

\* pre, then the frame _send_command's scheme builds from payload, then post
FramedStream(kind, pre, payload, post) ==
    LET valid == send_command_frame(payload)
    IN  [kind |-> kind, bytes |-> pre \o valid \o post, payload |-> payload,
         valid |-> valid, at |-> Len(pre)]

\* bytes holding no valid frame
UnframedStream(kind, bytes) ==
    [kind |-> kind, bytes |-> bytes, payload |-> <<>>, valid |-> <<>>, at |-> 0]

\* a header whose length field (7) spans a whole valid frame (empty payload)
\* and one more byte, so that the footer test fails with the valid frame behind
\* the header
NestedStream ==
    LET valid == send_command_frame(<<>>)
    IN  [kind |-> "nested", bytes |-> FRAME_HEADER \o ToBytesLE(7) \o valid \o <<0>>,
         payload |-> <<>>, valid |-> valid, at |-> 6]

Streams ==
    { FramedStream("single", g, p, h) : g \in Garbage, p \in Payloads, h \in {<<>>, <<0>>} }
    \cup { NestedStream }
    \cup { FramedStream("resync", c \o g, TargetReport(1), <<>>) :
              c \in CorruptFrames, g \in Garbage }
    \cup { UnframedStream("garbage", c) : c \in CorruptFrames }
    \cup { UnframedStream("scenario", ScenarioBytes) }

-----------------------------------------------------------------------------
(* drivers/ld2410.py: the operations *)

\* bytes read from the UART so far
Consumed == sent - Len(uart_rx)

\* LD2410.__init__ (lines 30-41) with the stream s about to be sent
DecoderInit(s) ==
    /\ stream = s
    /\ sent = 0
    /\ uart_rx = <<>>
    /\ rpc = "idle"
    /\ buffer = <<>>
    /\ last_data = InitLastData
    /\ emitted = <<>>
    /\ call_start = 0
    /\ ticks = 0
    /\ poll_result = "none"

\* the sensor's next byte reaches the UART
ByteArrives ==
    /\ sent < Len(stream.bytes)
    /\ sent' = sent + 1
    /\ uart_rx' = Append(uart_rx, stream.bytes[sent + 1])
    /\ UNCHANGED <<pollVars, stream, rpc, buffer, last_data, emitted, call_start>>

\* read_data with uart.any() = 0 (line 110): only the GPIO level is stored
read_data_no_uart ==
    /\ rpc = "idle"
    /\ uart_rx = <<>>
    /\ \E gpio \in BOOLEAN : last_data' = read_data_finish(last_data, <<>>, gpio)
    /\ UNCHANGED <<pollVars, stream, sent, uart_rx, rpc, buffer, emitted, call_start>>

\* read_data with uart.any() > 0: _read_frame starts with an empty buffer and,
\* the timeout not yet elapsed, reads the first byte (lines 73-80)
read_frame_begin ==
    /\ rpc = "idle"
    /\ uart_rx # <<>>
    /\ rpc' = "reading"
    /\ call_start' = Consumed
    /\ buffer' = frame_check(<<Head(uart_rx)>>).buffer
    /\ uart_rx' = Tail(uart_rx)
    /\ UNCHANGED <<pollVars, stream, sent, last_data, emitted>>

\* one more pass of the loop with a byte available (lines 76-98); when the frame
\* is complete _read_frame returns it and read_data finishes (lines 113-139)
read_frame_byte ==
    /\ rpc = "reading"
    /\ uart_rx # <<>>
    /\ uart_rx' = Tail(uart_rx)
    /\ LET r == frame_check(Append(buffer, Head(uart_rx))) IN
       IF r.ret
       THEN /\ emitted' = Append(emitted, r.frame)
            /\ \E gpio \in BOOLEAN : last_data' = read_data_finish(last_data, r.frame, gpio)
            /\ rpc' = "idle"
            /\ buffer' = <<>>
            /\ call_start' = 0
       ELSE /\ buffer' = r.buffer
            /\ UNCHANGED <<emitted, last_data, rpc, call_start>>
    /\ UNCHANGED <<pollVars, stream, sent>>

\* the timeout elapses (line 76 false): _read_frame returns None (line 100), the
\* buffer is dropped with the call, and read_data stores the GPIO level
read_frame_timeout ==
    /\ rpc = "reading"
    /\ rpc' = "idle"
    /\ buffer' = <<>>
    /\ call_start' = 0
    /\ \E gpio \in BOOLEAN : last_data' = read_data_finish(last_data, <<>>, gpio)
    /\ UNCHANGED <<pollVars, stream, sent, uart_rx, emitted>>

\* LD2410.get_state(): a copy of _last_data
sensor_get_state == last_data

-----------------------------------------------------------------------------
(* _read_frame with its clock: the loop of lines 73-100 against time *)

\* a stream for the timed decoder; an endless one repeats its bytes for ever
TimedStream(kind, bytes) == [kind |-> kind, bytes |-> bytes]

PollStreams ==
    { TimedStream("endless", <<0>>),
      TimedStream("endless", FRAME_HEADER \o <<255, 255>> \o <<0, 0, 0, 0, 0, 0>>),
      TimedStream("endless", send_command_frame(<<>>)),
      TimedStream("stops", FRAME_HEADER \o ToBytesLE(13) \o <<2, 170, 2>>) }

\* the sensor's next byte enters the UART's receive buffer, which has room for it
\* (a byte that finds it full is lost and is no part of what the decoder reads)
timed_byte_arrives ==
    /\ Len(uart_rx) < RxCapacity
    /\ stream.kind = "endless" \/ sent < Len(stream.bytes)
    /\ sent' = IF stream.kind = "endless" THEN (sent + 1) % Len(stream.bytes) ELSE sent + 1
    /\ uart_rx' = Append(uart_rx, stream.bytes[sent + 1])
    /\ UNCHANGED <<stream, rpc, buffer, last_data, emitted, call_start, pollVars,
                   ledVars, sysVars>>

\* the time one pass of the loop takes, in ticks
PassTicks == {1, 2}

\* time.ticks_ms() after a pass that took d ticks
Elapsed(t, d) == IF t + d > PollTimeout THEN PollTimeout ELSE t + d

\* a loop that also goes on for as long as bytes are waiting
LoopContinuesWhileData(t, rx) == t < PollTimeout \/ rx # <<>>

\* the loop condition of _read_frame (line 76)
LoopContinues(t, rx) == t < PollTimeout

\* read_data with uart.any() > 0 (lines 110-111): _read_frame takes start_time
\* and an empty buffer (lines 73-74)
timed_read_frame_begin ==
    /\ rpc = "idle"
    /\ uart_rx # <<>>
    /\ rpc' = "reading"
    /\ ticks' = 0
    /\ buffer' = <<>>
    /\ UNCHANGED <<stream, sent, uart_rx, last_data, emitted, call_start, poll_result,
                   ledVars, sysVars>>

\* one pass of the loop with uart.any() = 0 (lines 76-77)
timed_read_frame_idle ==
    /\ rpc = "reading"
    /\ LoopContinues(ticks, uart_rx)
    /\ uart_rx = <<>>
    /\ \E d \in PassTicks : ticks' = Elapsed(ticks, d)
    /\ UNCHANGED <<stream, sent, uart_rx, rpc, buffer, last_data, emitted, call_start,
                   poll_result, ledVars, sysVars>>

\* one pass of the loop with a byte available (lines 76-98)
timed_read_frame_byte ==
    /\ rpc = "reading"
    /\ LoopContinues(ticks, uart_rx)
    /\ uart_rx # <<>>
    /\ uart_rx' = Tail(uart_rx)
    /\ LET r == frame_check(Append(buffer, Head(uart_rx))) IN
       IF r.ret
       THEN /\ \E gpio \in BOOLEAN : last_data' = read_data_finish(last_data, r.frame, gpio)
            /\ rpc' = "idle"
            /\ buffer' = <<>>
            /\ ticks' = 0
            /\ poll_result' = "frame"
       ELSE /\ buffer' = r.buffer
            /\ \E d \in PassTicks : ticks' = Elapsed(ticks, d)
            /\ UNCHANGED <<last_data, rpc, poll_result>>
    /\ UNCHANGED <<stream, sent, emitted, call_start, ledVars, sysVars>>

\* the loop condition is false (line 76): _read_frame returns None (line 100)
\* and read_data stores the GPIO level
timed_read_frame_timeout ==
    /\ rpc = "reading"
    /\ ~LoopContinues(ticks, uart_rx)
    /\ rpc' = "idle"
    /\ buffer' = <<>>
    /\ ticks' = 0
    /\ poll_result' = "none"
    /\ \E gpio \in BOOLEAN : last_data' = read_data_finish(last_data, <<>>, gpio)
    /\ UNCHANGED <<stream, sent, uart_rx, emitted, call_start, ledVars, sysVars>>

\* a sensor that sends nothing: the decoder's state in the other specifications
SilentStream == UnframedStream("garbage", <<>>)

-----------------------------------------------------------------------------
(* drivers/neopixel_ring.py: constants and pure helpers *)

\* config.NEOPIXEL_COUNT, passed as num_leds
NEOPIXEL_COUNT == 12
\* the step counts of _render_fade and _render_fire
FADE_STEPS == 100
FIRE_STEPS == 150

Pixels == 0..(NEOPIXEL_COUNT - 1)

Patterns == {"solid", "breathe", "fade", "rainbow", "fire", "dream"}

Min(a, b) == IF a < b THEN a ELSE b
Max(a, b) == IF a > b THEN a ELSE b

\* max(0, min(255, x)) of set_color and set_white
Clamp255(x) == Max(0, Min(255, x))

\* the tuple _update_leds and set_pixel store for one pixel
PixelTuple(is_rgbw, r, g, b, w) ==
    IF is_rgbw THEN <<r, g, b, w>> ELSE <<r, g, b>>

\* _update_leds: every pixel gets the base colour and the white level
update_leds(is_rgbw, c, w) ==
    [i \in Pixels |-> PixelTuple(is_rgbw, c[1], c[2], c[3], w)]

\* set_pixel(index, r, g, b, w) applied to a pixel array; w is <<v>> for the
\* value v and <<>> for None (the omitted argument); an index outside the ring
\* changes nothing
set_pixel(a, is_rgbw, cur_white, index, r, g, b, w) ==
    IF 0 <= index /\ index < NEOPIXEL_COUNT
    THEN [a EXCEPT ![index] =
            PixelTuple(is_rgbw, r, g, b, IF w # <<>> THEN w[1] ELSE cur_white)]
    ELSE a

\* the loops "for i in range(num_leds): set_pixel(i, r, g, b, w)" of the renderers
SetAllPixels(a, is_rgbw, cur_white, r, g, b, w) ==
    [i \in Pixels |-> set_pixel(a, is_rgbw, cur_white, i, r, g, b, <<w>>)[i]]

\* 0.3 + 0.7 * ((sin(phase) + 1) / 2) in millionths, for the phases _render_breathe
\* reaches (0.0, 0.1, ... 6.2): entry k + 1 is for phase k * 0.1. The entries are
\* IEEE double values cut to six decimals; int(c * brightness) equals
\* (c * entry) \div 10^6 for every channel value c in 0..255.
BreatheBrightness ==
    << 649999, 684941, 719534, 753432, 786296, 817798, 847624, 875476, 901074,
       924164, 944514, 961922, 976213, 987245, 994907, 999123, 999850, 997082,
       990846, 981205, 968254, 952123, 932973, 910996, 886412, 859465, 830425,
       799582, 767245, 733737, 699392, 664553, 629569, 594789, 560560, 527225,
       495117, 464557, 435849, 409281, 385119, 363603, 344948, 329342, 316939,
       307864, 302208, 300026, 301342, 306141, 314376, 325964, 340790, 358706,
       379532, 403060, 429056, 457260, 487389, 519143, 552204, 586243, 620918 >>

\* the same for the phases _render_dream reaches (0.0, 0.08, ... 6.24)
DreamBrightness ==
    << 649999, 677970, 705761, 733195, 760098, 786296, 811622, 835915, 859018,
       880784, 901074, 919758, 936717, 951841, 965035, 976213, 985305, 992252,
       997010, 999548, 999850, 997915, 993754, 987394, 978875, 968254, 955596,
       940984, 924510, 906281, 886412, 865031, 842274, 818287, 793224, 767245,
       740516, 713208, 685496, 657556, 629569, 601711, 574163, 547100, 520695,
       495117, 470530, 447091, 424950, 404248, 385119, 367683, 352054, 338330,
       326600, 316939, 309408, 304056, 300916, 300010, 301342, 304904, 310674,
       318615, 328675, 340790, 354884, 370865, 388632, 408070, 429056, 451456,
       475125, 499913, 525661, 552204, 579373, 606994, 634889 >>

\* 2 * math.pi in hundredths of a radian, rounded up: phase >= 2 * pi exactly
\* when the phase in hundredths is >= 629
TWO_PI_100 == 629

\* int(c * brightness) for a brightness in millionths
Scale(c, bright) == (c * bright) \div 1000000

\* phase + step, reset to 0 at 2 * pi (lines 206-208, 279-281)
AdvancePhase(phase, step) ==
    IF phase + step >= TWO_PI_100 THEN 0 ELSE phase + step

\* the colour _render_breathe writes to every pixel: <<r, g, b, w>>
BreatheColor(c, w, phase) ==
    LET bright == BreatheBrightness[(phase \div 10) + 1]
    IN  <<Scale(c[1], bright), Scale(c[2], bright), Scale(c[3], bright), Scale(w, bright)>>

\* int(c1 + (c2 - c1) * (progress / steps)) of _render_fade and _render_fire. The
\* code computes in floating point: for the triples listed the product falls just
\* below the exact value and int() yields one less (64-bit floats; a build with
\* narrower floats can differ by one on other triples, within the same range).
LerpRoundsDown == { <<0, 50, 58, 100>>, <<50, 0, 56, 100>>,
                    <<50, 0, 84, 150>>, <<0, 50, 87, 150>> }
Lerp(c1, c2, progress, steps) ==
    ((steps * c1 + (c2 - c1) * progress) \div steps)
        - (IF <<c1, c2, progress, steps>> \in LerpRoundsDown THEN 1 ELSE 0)

\* hue (in half degrees) to the (r, g, b) that _render_dream writes: chroma 1,
\* x = 1 - |h mod 2 - 1| with h = hue / 60, the six sectors, then
\* int(v * 255 * brightness); computed in integers without passing 2^31
DreamChannel(x120, bright) ==
    LET v == x120 * 255
    IN  (v * (bright \div 1000) + (v * (bright % 1000)) \div 1000) \div 120000

SectorRGB(sector, c, x) ==
    CASE sector = 0 -> <<c, x, 0>>
      [] sector = 1 -> <<x, c, 0>>
      [] sector = 2 -> <<0, c, x>>
      [] sector = 3 -> <<0, x, c>>
      [] sector = 4 -> <<x, 0, c>>
      [] OTHER      -> <<c, 0, x>>

Abs(x) == IF x < 0 THEN -x ELSE x

DreamColor(hue2, phase) ==
    LET bright == DreamBrightness[(phase \div 8) + 1]
        x120   == 120 - Abs((hue2 % 240) - 120)
    IN  SectorRGB(hue2 \div 120, DreamChannel(120, bright), DreamChannel(x120, bright))

\* the (int(r * 255), int(g * 255), int(b * 255)) of lines 319-345 for the hues
\* 0, 5, ... 355 (chroma 1, x = 1 - |h mod 2 - 1|, six sectors), as IEEE double
\* arithmetic yields them: entry k + 1 is for hue 5 * k
RainbowTable ==
    <<
       <<255, 0, 0>>, <<255, 21, 0>>, <<255, 42, 0>>, <<255, 63, 0>>,
       <<255, 84, 0>>, <<255, 106, 0>>, <<255, 127, 0>>, <<255, 148, 0>>,
       <<255, 170, 0>>, <<255, 191, 0>>, <<255, 212, 0>>, <<255, 233, 0>>,
       <<255, 255, 0>>, <<233, 255, 0>>, <<212, 255, 0>>, <<191, 255, 0>>,
       <<170, 255, 0>>, <<148, 255, 0>>, <<127, 255, 0>>, <<106, 255, 0>>,
       <<84, 255, 0>>, <<63, 255, 0>>, <<42, 255, 0>>, <<21, 255, 0>>,
       <<0, 255, 0>>, <<0, 255, 21>>, <<0, 255, 42>>, <<0, 255, 63>>,
       <<0, 255, 85>>, <<0, 255, 106>>, <<0, 255, 127>>, <<0, 255, 148>>,
       <<0, 255, 169>>, <<0, 255, 191>>, <<0, 255, 212>>, <<0, 255, 233>>,
       <<0, 255, 255>>, <<0, 233, 255>>, <<0, 212, 255>>, <<0, 191, 255>>,
       <<0, 169, 255>>, <<0, 148, 255>>, <<0, 127, 255>>, <<0, 106, 255>>,
       <<0, 85, 255>>, <<0, 63, 255>>, <<0, 42, 255>>, <<0, 21, 255>>,
       <<0, 0, 255>>, <<21, 0, 255>>, <<42, 0, 255>>, <<63, 0, 255>>,
       <<84, 0, 255>>, <<106, 0, 255>>, <<127, 0, 255>>, <<148, 0, 255>>,
       <<170, 0, 255>>, <<191, 0, 255>>, <<212, 0, 255>>, <<233, 0, 255>>,
       <<255, 0, 255>>, <<255, 0, 233>>, <<255, 0, 212>>, <<255, 0, 191>>,
       <<255, 0, 170>>, <<255, 0, 148>>, <<255, 0, 127>>, <<255, 0, 106>>,
       <<255, 0, 84>>, <<255, 0, 63>>, <<255, 0, 42>>, <<255, 0, 21>> >>

\* the (r, g, b) _render_rainbow writes to pixel i
RainbowColor(i, offset) ==
    LET hue == ((i * 360) \div NEOPIXEL_COUNT + offset) % 360
    IN  RainbowTable[(hue \div 5) + 1]

\* random.randint(50, 255) per channel (lines 308-312): the values explored
FadeSamples == {50, 255}
FadeDraws == {<<a, b, c>> : a \in FadeSamples, b \in FadeSamples, c \in FadeSamples}

\* draws from ranges ten wider at each end
FireDrawsWide == {<<r, g, b, w>> : r \in {210, 255}, g \in {90, 230}, b \in {0, 70},
                                   w \in {40, 190}}

\* the four random.randint ranges of lines 235-240: the values explored
FireDraws == {<<r, g, b, w>> : r \in {220, 255}, g \in {100, 220}, b \in {0, 60},
                               w \in {50, 180}}

\* hexadecimal digits as one-character strings; a hex string is a sequence of them
HexLower == <<"0", "1", "2", "3", "4", "5", "6", "7", "8", "9",
              "a", "b", "c", "d", "e", "f">>
HexUpper == <<"0", "1", "2", "3", "4", "5", "6", "7", "8", "9",
              "A", "B", "C", "D", "E", "F">>

\* the value of a hexadecimal digit, -1 for any other character
DigitValue(ch) ==
    IF \E i \in 1..16 : HexLower[i] = ch
    THEN (CHOOSE i \in 1..16 : HexLower[i] = ch) - 1
    ELSE IF \E i \in 1..16 : HexUpper[i] = ch
         THEN (CHOOSE i \in 1..16 : HexUpper[i] = ch) - 1
         ELSE -1

\* str.lstrip('#')
RECURSIVE LStripHash(_)
LStripHash(h) ==
    IF h # <<>> /\ Head(h) = "#" THEN LStripHash(Tail(h)) ELSE h

\* int(s, 16) for a slice s of at most two characters: [ok, value]; ValueError
\* (ok = FALSE) for the empty slice and for a character that is no hex digit
\* (signs, blanks and underscores, which int() also reads, are not explored)
IntBase16(s) ==
    [ok    |-> s # <<>> /\ \A i \in DOMAIN s : DigitValue(s[i]) >= 0,
     value |-> IF s = <<>> \/ \E i \in DOMAIN s : DigitValue(s[i]) < 0 THEN 0
               ELSE IF Len(s) = 1 THEN DigitValue(s[1])
               ELSE 16 * DigitValue(s[1]) + DigitValue(s[2])]

\* lines 80-83 of set_color_hex: [ok, r, g, b]; ok = FALSE when int() raises
ParseHex(hex_color) ==
    LET h == LStripHash(hex_color)
        r == IntBase16(Slice(h, 0, 2))
        g == IntBase16(Slice(h, 2, 4))
        b == IntBase16(Slice(h, 4, 6))
    IN  [ok |-> r.ok /\ g.ok /\ b.ok, r |-> r.value, g |-> g.value, b |-> b.value]

-----------------------------------------------------------------------------
(* drivers/neopixel_ring.py: the operations, as changes of the ring's state *)

\* NeopixelRing.__init__ (lines 21-45), ending with clear()
LedInit(is_rgbw) ==
    /\ rgbw = is_rgbw
    /\ color = <<0, 0, 0>>
    /\ white = 0
    /\ pattern = "solid"
    /\ breathe_phase = 0
    /\ fade_current_color = <<255, 0, 0>>
    /\ fade_target_color = <<0, 255, 0>>
    /\ fade_progress = 0
    /\ rainbow_offset = 0
    /\ dream_phase = 0
    /\ dream_hue = 0
    /\ fire_current = <<255, 180, 50, 100>>
    /\ fire_target = <<255, 200, 30, 120>>
    /\ fire_progress = 0
    /\ np = update_leds(is_rgbw, <<0, 0, 0>>, 0)
    /\ renders = 0
    /\ since_set = 0
    /\ target_at_set = <<0, 255, 0>>
    /\ last_set = <<"none", 0>>

\* set_color(r, g, b)
set_color(r, g, b) ==
    /\ color' = <<Clamp255(r), Clamp255(g), Clamp255(b)>>
    /\ np' = IF pattern = "solid" THEN update_leds(rgbw, color', white) ELSE np
    /\ UNCHANGED <<rgbw, white, pattern, privVars>>

\* set_color_hex(hex_color) when no int() raises
set_color_hex(hex_color) ==
    LET c == ParseHex(hex_color) IN
    /\ c.ok
    /\ set_color(c.r, c.g, c.b)

\* set_white(brightness)
set_white(brightness) ==
    IF ~rgbw
    THEN set_color(brightness, brightness, brightness)
    ELSE /\ white' = Clamp255(brightness)
         /\ np' = IF pattern = "solid" THEN update_leds(rgbw, color, white') ELSE np
         /\ UNCHANGED <<rgbw, color, pattern, privVars>>

\* the pattern-private variables after set_pattern: the code assigns none of them
\* a different set_pattern, for comparison: it also renders a first frame, which
\* moves the rainbow on
PrivateAfterSetPatternAdvancing ==
    /\ rainbow_offset' = (rainbow_offset + 5) % 360
    /\ UNCHANGED <<breathe_phase, fade_current_color, fade_target_color, fade_progress,
                   dream_phase, dream_hue, fire_current, fire_target, fire_progress>>

PrivateAfterSetPattern ==
    UNCHANGED privVars

\* set_pattern(p)
set_pattern(p) ==
    /\ pattern' = p
    /\ np' = IF p = "solid" THEN update_leds(rgbw, color, white) ELSE np
    /\ PrivateAfterSetPattern
    /\ UNCHANGED <<rgbw, color, white>>

\* clear() and its alias off()
clear ==
    /\ color' = <<0, 0, 0>>
    /\ white' = 0
    /\ np' = update_leds(rgbw, color', white')
    /\ UNCHANGED <<rgbw, pattern, privVars>>

\* the public set_pixel(index, r, g, b, w), called on its own
set_pixel_call(index, r, g, b, w) ==
    /\ np' = set_pixel(np, rgbw, white, index, r, g, b, w)
    /\ UNCHANGED <<baseVars, privVars>>

\* a different breathe, for comparison: the dimmed colour is stored as the base
\* colour
_render_breathe_storing ==
    LET c == BreatheColor(color, white, breathe_phase) IN
    /\ np' = SetAllPixels(np, rgbw, white, c[1], c[2], c[3], c[4])
    /\ breathe_phase' = AdvancePhase(breathe_phase, 10)
    /\ color' = <<c[1], c[2], c[3]>>
    /\ UNCHANGED <<rgbw, white, pattern, fade_current_color, fade_target_color,
                   fade_progress, rainbow_offset, dream_phase, dream_hue, fire_current,
                   fire_target, fire_progress>>

_render_breathe ==
    LET c == BreatheColor(color, white, breathe_phase) IN
    /\ np' = SetAllPixels(np, rgbw, white, c[1], c[2], c[3], c[4])
    /\ breathe_phase' = AdvancePhase(breathe_phase, 10)
    /\ UNCHANGED <<baseVars, fade_current_color, fade_target_color, fade_progress,
                   rainbow_offset, dream_phase, dream_hue, fire_current, fire_target,
                   fire_progress>>

_render_fade ==
    LET c1 == fade_current_color
        c2 == fade_target_color
        r  == Lerp(c1[1], c2[1], fade_progress, FADE_STEPS)
        g  == Lerp(c1[2], c2[2], fade_progress, FADE_STEPS)
        b  == Lerp(c1[3], c2[3], fade_progress, FADE_STEPS)
    IN
    /\ np' = SetAllPixels(np, rgbw, white, r, g, b, 0)
    /\ IF fade_progress + 1 >= FADE_STEPS
       THEN /\ fade_current_color' = fade_target_color
            /\ fade_target_color' \in FadeDraws
            /\ fade_progress' = 0
       ELSE /\ fade_progress' = fade_progress + 1
            /\ UNCHANGED <<fade_current_color, fade_target_color>>
    /\ UNCHANGED <<baseVars, breathe_phase, rainbow_offset, dream_phase, dream_hue,
                   fire_current, fire_target, fire_progress>>

_render_rainbow ==
    /\ np' = [i \in Pixels |->
                LET c == RainbowColor(i, rainbow_offset)
                IN  set_pixel(np, rgbw, white, i, c[1], c[2], c[3], <<0>>)[i]]
    /\ rainbow_offset' = (rainbow_offset + 5) % 360
    /\ UNCHANGED <<baseVars, breathe_phase, fade_current_color, fade_target_color,
                   fade_progress, dream_phase, dream_hue, fire_current, fire_target,
                   fire_progress>>

_render_fire ==
    LET c1 == fire_current
        c2 == fire_target
        r  == Lerp(c1[1], c2[1], fire_progress, FIRE_STEPS)
        g  == Lerp(c1[2], c2[2], fire_progress, FIRE_STEPS)
        b  == Lerp(c1[3], c2[3], fire_progress, FIRE_STEPS)
        w  == Lerp(c1[4], c2[4], fire_progress, FIRE_STEPS)
    IN
    /\ np' = SetAllPixels(np, rgbw, white, r, g, b, w)
    /\ IF fire_progress + 1 >= FIRE_STEPS
       THEN /\ fire_current' = fire_target
            /\ fire_target' \in FireDraws
            /\ fire_progress' = 0
       ELSE /\ fire_progress' = fire_progress + 1
            /\ UNCHANGED <<fire_current, fire_target>>
    /\ UNCHANGED <<baseVars, breathe_phase, fade_current_color, fade_target_color,
                   fade_progress, rainbow_offset, dream_phase, dream_hue>>

_render_dream ==
    LET c == DreamColor(dream_hue, dream_phase) IN
    /\ np' = SetAllPixels(np, rgbw, white, c[1], c[2], c[3], 0)
    /\ dream_phase' = AdvancePhase(dream_phase, 8)
    /\ dream_hue' = (dream_hue + 1) % 720
    /\ UNCHANGED <<baseVars, breathe_phase, fade_current_color, fade_target_color,
                   fade_progress, rainbow_offset, fire_current, fire_target,
                   fire_progress>>

\* render_pattern: the if/elif chain of lines 174-186; "solid" and any name that
\* is no pattern render nothing
render_pattern ==
    CASE pattern = "breathe" -> _render_breathe
      [] pattern = "fade"    -> _render_fade
      [] pattern = "rainbow" -> _render_rainbow
      [] pattern = "fire"    -> _render_fire
      [] pattern = "dream"   -> _render_dream
      [] OTHER               -> UNCHANGED <<baseVars, np, privVars>>

-----------------------------------------------------------------------------
(* drivers/pump.py, drivers/sma.py *)

\* config.SMA_PWM_FREQ
SMA_PWM_FREQ == 25000

\* Pump.on / Pump.off
pump_on ==
    /\ pump_pin' = TRUE
    /\ pump_state' = TRUE
pump_off ==
    /\ pump_pin' = FALSE
    /\ pump_state' = FALSE

\* the duty SMA.set_duty gives the PWM: int(percent * 1023 / 100)
DutyOf(percent) == (percent * 1023) \div 100

\* a clamp from above only
Clamp100Above(percent) == Min(100, percent)

\* the clamp of SMA.set_duty: max(0, min(100, percent))
Clamp100(percent) == Max(0, Min(100, percent))

\* SMA.set_duty(percent); SMA.off() is set_duty(0)
sma_set_duty(percent) ==
    /\ sma_percent' = Clamp100(percent)
    /\ sma_duty' = DutyOf(Clamp100(percent))

-----------------------------------------------------------------------------
(* web_server.py: the handlers. A request is [method, path, data], data being  *)
(* the JSON object as a function from key to value (the empty function for an  *)
(* empty object or no body: both are false in "if data"). A response is        *)
(* [status, body]. A handler that returns a dict is answered with status 200,  *)
(* one that returns (dict, 400) with 400, and Microdot answers an exception    *)
(* that leaves a handler with status 500.                                      *)

NoData == [k \in {} |-> 0]

Has(data, k) == k \in DOMAIN data

\* "if data": an empty object and a missing body are both false
Truthy(data) == DOMAIN data # {}

\* "#{:02x}{:02x}{:02x}".format(r, g, b) of get_color_hex
get_color_hex(c) ==
    <<"#", HexLower[(c[1] \div 16) + 1], HexLower[(c[1] % 16) + 1],
           HexLower[(c[2] \div 16) + 1], HexLower[(c[2] % 16) + 1],
           HexLower[(c[3] \div 16) + 1], HexLower[(c[3] % 16) + 1]>>

\* NeopixelRing.get_state()
leds_get_state(c, w, p) ==
    [r |-> c[1], g |-> c[2], b |-> c[3], hex |-> get_color_hex(c), white |-> w,
     pattern |-> p]

Ok(body) == [status |-> 200, body |-> body]
BadRequest(msg) == [status |-> 400, body |-> [error |-> msg]]
ServerError == [status |-> 500, body |-> [error |-> "Internal server error"]]

\* GET /api/pump, /api/sma, /api/leds
get_pump ==
    /\ response' = Ok([on |-> pump_state])
    /\ UNCHANGED <<actVars, baseVars, np, privVars, decVars>>
get_sma ==
    /\ response' = Ok([percent |-> sma_percent, freq |-> SMA_PWM_FREQ])
    /\ UNCHANGED <<actVars, baseVars, np, privVars, decVars>>
get_leds ==
    /\ response' = Ok(leds_get_state(color, white, pattern))
    /\ UNCHANGED <<actVars, baseVars, np, privVars, decVars>>

\* POST /api/pump
control_pump(data) ==
    /\ IF Truthy(data) /\ Has(data, "on")
       THEN /\ IF data["on"] THEN pump_on ELSE pump_off
            /\ response' = Ok([on |-> pump_state'])
       ELSE /\ response' = BadRequest("Invalid request")
            /\ UNCHANGED <<pump_state, pump_pin>>
    /\ UNCHANGED <<sma_percent, sma_duty, baseVars, np, privVars, decVars>>

\* POST /api/sma
control_sma(data) ==
    /\ IF Truthy(data) /\ Has(data, "percent")
       THEN /\ sma_set_duty(data["percent"])
            /\ response' = Ok([percent |-> sma_percent', freq |-> SMA_PWM_FREQ])
       ELSE /\ response' = BadRequest("Invalid request")
            /\ UNCHANGED <<sma_percent, sma_duty>>
    /\ UNCHANGED <<pump_state, pump_pin, baseVars, np, privVars, decVars>>

\* POST /api/leds
control_leds(data) ==
    /\ IF ~Truthy(data)
       THEN /\ response' = BadRequest("Invalid request")
            /\ UNCHANGED <<baseVars, np, privVars>>
       ELSE IF Has(data, "hex")
       THEN IF ParseHex(data["hex"]).ok
            THEN /\ set_color_hex(data["hex"])
                 /\ response' = Ok(leds_get_state(color', white', pattern'))
            ELSE /\ response' = ServerError
                 /\ UNCHANGED <<baseVars, np, privVars>>
       ELSE IF Has(data, "r") /\ Has(data, "g") /\ Has(data, "b")
       THEN /\ set_color(data["r"], data["g"], data["b"])
            /\ response' = Ok(leds_get_state(color', white', pattern'))
       ELSE /\ response' = BadRequest("Invalid color format")
            /\ UNCHANGED <<baseVars, np, privVars>>
    /\ UNCHANGED <<actVars, decVars>>

\* POST /api/leds/white
control_leds_white(data) ==
    /\ IF Truthy(data) /\ Has(data, "brightness")
       THEN /\ set_white(data["brightness"])
            /\ response' = Ok([white |-> data["brightness"]])
       ELSE /\ response' = BadRequest("Invalid request")
            /\ UNCHANGED <<baseVars, np, privVars>>
    /\ UNCHANGED <<actVars, decVars>>

\* _read_frame run on the bytes it reads during one call, from an empty buffer
\* (lines 73-100): [ret, frame, used], used being the bytes read when it returned
RECURSIVE read_frame_run(_, _, _)
read_frame_run(buf, bytes, i) ==
    IF i > Len(bytes)
    THEN [ret |-> FALSE, frame |-> <<>>, used |-> Len(bytes)]
    ELSE LET r == frame_check(Append(buf, bytes[i])) IN
         IF r.ret
         THEN [ret |-> TRUE, frame |-> r.frame, used |-> i]
         ELSE read_frame_run(r.buffer, bytes, i + 1)

\* a whole read_data call with uart.any() > 0 that reads the stream's next k
\* bytes, k of them making _read_frame return or the timeout ending it
read_data_reading(k) ==
    LET got == Slice(stream.bytes, Consumed, Consumed + k)
        r   == read_frame_run(<<>>, got, 1)
    IN
    /\ rpc = "idle"
    /\ uart_rx = <<>>
    /\ k >= 1
    /\ Consumed + k <= Len(stream.bytes)
    /\ r.used = k
    /\ sent' = Consumed + k
    /\ emitted' = IF r.ret THEN Append(emitted, r.frame) ELSE emitted
    /\ \E gpio \in BOOLEAN : last_data' = read_data_finish(last_data, r.frame, gpio)
    /\ UNCHANGED <<pollVars, stream, uart_rx, rpc, buffer, call_start>>

\* the read sizes explored in the system specification: to the end of the
\* stream, or SysSplit bytes
ReadSizes == {Len(stream.bytes) - Consumed, SysSplit}

\* LD2410.read_data(), a whole call
read_data ==
    \/ read_data_no_uart
    \/ \E k \in ReadSizes : read_data_reading(k)

\* GET /api/radar: read_data() and then get_state()
get_radar ==
    /\ read_data
    /\ response' = Ok(last_data')
    /\ UNCHANGED <<actVars, baseVars, np, privVars>>

Req(method, path, data) == [method |-> method, path |-> path, data |-> data]

\* no request is being answered, and no response is pending
NoRequest == Req("none", "none", NoData)
NoResponse == [status |-> 0, body |-> NoData]

\* the route table of _setup_routes
Handle(req) ==
    CASE req.method = "GET"  /\ req.path = "/api/pump"       -> get_pump
      [] req.method = "POST" /\ req.path = "/api/pump"       -> control_pump(req.data)
      [] req.method = "GET"  /\ req.path = "/api/sma"        -> get_sma
      [] req.method = "POST" /\ req.path = "/api/sma"        -> control_sma(req.data)
      [] req.method = "GET"  /\ req.path = "/api/leds"       -> get_leds
      [] req.method = "POST" /\ req.path = "/api/leds"       -> control_leds(req.data)
      [] req.method = "POST" /\ req.path = "/api/leds/white" -> control_leds_white(req.data)
      [] req.method = "GET"  /\ req.path = "/api/radar"      -> get_radar

-----------------------------------------------------------------------------
(* main.py: LiveLamp *)

\* Pump.__init__, SMA.__init__ and the state before run()
SysInit ==
    /\ pump_state = FALSE
    /\ pump_pin = FALSE
    /\ sma_percent = 0
    /\ sma_duty = 0
    /\ run_pc = "wifi"
    /\ sensor_pc = "ready"
    /\ pattern_pc = "ready"
    /\ web_pc = "serving"
    /\ sensor_sleep = 0
    /\ pattern_sleep = 0
    /\ request = NoRequest
    /\ response = NoResponse
    /\ current = "none"

\* a cleanup that leaves the SMA as it is
cleanup_without_sma ==
    /\ pump_off
    /\ clear
    /\ UNCHANGED <<sma_percent, sma_duty>>

\* cleanup(): pump.off(), sma.off(), leds.off()
cleanup ==
    /\ pump_off
    /\ sma_set_duty(0)
    /\ clear

\* run(): connect_wifi() returns False and run returns (lines 166-168)
wifi_fails ==
    /\ run_pc = "wifi"
    /\ run_pc' = "returned"
    /\ UNCHANGED <<current, actVars, sensor_pc, pattern_pc, web_pc, sensor_sleep, pattern_sleep,
                   webVars, decVars, ledVars>>

\* run(): connect_wifi() returns True and asyncio.run(start_tasks()) begins
wifi_connects ==
    /\ run_pc = "wifi"
    /\ run_pc' = "running"
    /\ UNCHANGED <<current, actVars, sensor_pc, pattern_pc, web_pc, sensor_sleep, pattern_sleep,
                   webVars, decVars, ledVars>>

\* sensor_task: one pass of the loop without a fault (lines 97-111)
sensor_task_step ==
    /\ run_pc = "running"
    /\ sensor_pc = "ready"
    /\ read_data
    /\ sensor_pc' = "sleeping"
    /\ sensor_sleep' = 100
    /\ UNCHANGED <<current, actVars, run_pc, pattern_pc, web_pc, pattern_sleep, webVars, ledVars>>

\* sensor_task: the body raises an Exception (lines 113-115)
sensor_task_fault ==
    /\ run_pc = "running"
    /\ sensor_pc = "ready"
    /\ sensor_pc' = "sleeping"
    /\ sensor_sleep' = 1000
    /\ UNCHANGED <<current, actVars, run_pc, pattern_pc, web_pc, pattern_sleep, webVars, decVars,
                   ledVars>>

\* the sleep of sensor_task ends
sensor_task_wake ==
    /\ run_pc = "running"
    /\ sensor_pc = "sleeping"
    /\ sensor_pc' = "ready"
    /\ sensor_sleep' = 0
    /\ UNCHANGED <<current, actVars, run_pc, pattern_pc, web_pc, pattern_sleep, webVars, decVars,
                   ledVars>>

\* the sleep pattern_task chooses after a render (lines 129-143)
PatternSleepMs(p) ==
    CASE p = "solid"   -> 100
      [] p = "breathe" -> 30
      [] p = "fade"    -> 50
      [] p = "rainbow" -> 50
      [] p = "fire"    -> 60
      [] p = "dream"   -> 30
      [] OTHER         -> 100

\* pattern_task: one pass of the loop without a fault (lines 124-143)
pattern_task_step ==
    /\ run_pc = "running"
    /\ pattern_pc = "ready"
    /\ render_pattern
    /\ pattern_pc' = "sleeping"
    /\ pattern_sleep' = PatternSleepMs(pattern)
    /\ UNCHANGED <<current, actVars, run_pc, sensor_pc, web_pc, sensor_sleep, webVars, decVars,
                   histVars>>

\* pattern_task: the body raises an Exception (lines 145-147)
pattern_task_fault ==
    /\ run_pc = "running"
    /\ pattern_pc = "ready"
    /\ pattern_pc' = "sleeping"
    /\ pattern_sleep' = 1000
    /\ UNCHANGED <<current, actVars, run_pc, sensor_pc, web_pc, sensor_sleep, webVars, decVars,
                   ledVars>>

\* the sleep of pattern_task ends
pattern_task_wake ==
    /\ run_pc = "running"
    /\ pattern_pc = "sleeping"
    /\ pattern_pc' = "ready"
    /\ pattern_sleep' = 0
    /\ UNCHANGED <<current, actVars, run_pc, sensor_pc, web_pc, sensor_sleep, webVars, decVars,
                   ledVars>>

\* the server receives a request and runs its handler, which never awaits
web_request(req) ==
    /\ run_pc = "running"
    /\ web_pc = "serving"
    /\ Handle(req)
    /\ request' = req
    /\ web_pc' = "responding"
    /\ UNCHANGED <<current, run_pc, sensor_pc, pattern_pc, sensor_sleep, pattern_sleep, histVars>>

\* the response has been sent
web_respond ==
    /\ run_pc = "running"
    /\ web_pc = "responding"
    /\ web_pc' = "serving"
    /\ request' = NoRequest
    /\ response' = NoResponse
    /\ UNCHANGED <<current, actVars, run_pc, sensor_pc, pattern_pc, sensor_sleep, pattern_sleep,
                   decVars, ledVars>>

\* an exception leaves start_server: gather (lines 155-159) raises it in
\* start_tasks, asyncio.run raises it in run, which catches it and cleans up
\* (lines 176-183); sensor_task and pattern_task are never resumed
web_server_fault ==
    /\ run_pc = "running"
    /\ web_pc \in {"serving", "responding"}
    /\ web_pc' = "raised"
    /\ run_pc' = "returned"
    /\ cleanup
    /\ UNCHANGED <<current, sensor_pc, pattern_pc, sensor_sleep, pattern_sleep, webVars, decVars,
                   histVars>>

\* KeyboardInterrupt during asyncio.run (lines 178-183)
keyboard_interrupt ==
    /\ run_pc = "running"
    /\ run_pc' = "returned"
    /\ cleanup
    /\ UNCHANGED <<current, sensor_pc, pattern_pc, web_pc, sensor_sleep, pattern_sleep, webVars,
                   decVars, histVars>>


-----------------------------------------------------------------------------
(* main.py and web_server.py step by step: the tasks under the cooperative
   scheduler, which resumes one task at a time and gets control back only at
   an await *)

Activities == {"sensor", "pattern", "web"}

\* the positions in a body followed by an await with the middle of read_data added
AwaitsAtMid(pc) == pc \in {"mid", "written", "rendered", "handled"}

\* the positions in a body that are followed by an await: after read_data
\* (main.py line 111), after render_pattern (lines 129-143), and after a handler
\* has returned (no handler of web_server.py awaits)
AwaitsAt(pc) == pc \in {"written", "rendered", "handled"}

\* the scheduler resumes sensor_task at the top of its loop (line 96)
coop_sensor_resume ==
    /\ run_pc = "running"
    /\ current = "none"
    /\ sensor_pc = "ready"
    /\ current' = "sensor"
    /\ sensor_pc' = "running"
    /\ UNCHANGED <<actVars, run_pc, pattern_pc, web_pc, sensor_sleep, pattern_sleep, webVars,
                   decVars, ledVars>>

\* read_data up to the replacement of _last_data (ld2410.py lines 110-134): the
\* next k bytes are read, and a target report among them replaces the dict
coop_read_data_replace(k) ==
    LET got == Slice(stream.bytes, Consumed, Consumed + k)
        r   == read_frame_run(<<>>, got, 1)
    IN
    /\ run_pc = "running"
    /\ current = "sensor"
    /\ sensor_pc = "running"
    /\ Consumed + k <= Len(stream.bytes)
    /\ r.used = k
    /\ sent' = Consumed + k
    /\ emitted' = IF r.ret THEN Append(emitted, r.frame) ELSE emitted
    /\ last_data' = IF r.frame # <<>> /\ IsReport(r.frame) THEN Report(r.frame) ELSE last_data
    /\ sensor_pc' = "mid"
    /\ UNCHANGED <<pollVars, stream, uart_rx, rpc, buffer, call_start>>
    /\ UNCHANGED <<current, actVars, run_pc, pattern_pc, web_pc, sensor_sleep, pattern_sleep,
                   webVars, ledVars>>

\* read_data's last store (ld2410.py line 137)
coop_read_data_store_gpio ==
    /\ run_pc = "running"
    /\ current = "sensor"
    /\ sensor_pc = "mid"
    /\ \E gpio \in BOOLEAN : last_data' = DictSet(last_data, "presence_gpio", gpio)
    /\ sensor_pc' = "written"
    /\ UNCHANGED <<pollVars, stream, sent, uart_rx, rpc, buffer, emitted, call_start>>
    /\ UNCHANGED <<current, actVars, run_pc, pattern_pc, web_pc, sensor_sleep, pattern_sleep,
                   webVars, ledVars>>

\* await asyncio.sleep_ms(100) (line 111)
coop_sensor_suspend ==
    /\ run_pc = "running"
    /\ current = "sensor"
    /\ AwaitsAt(sensor_pc)
    /\ current' = "none"
    /\ sensor_pc' = IF sensor_pc = "written" THEN "sleeping" ELSE sensor_pc
    /\ sensor_sleep' = IF sensor_pc = "written" THEN 100 ELSE sensor_sleep
    /\ UNCHANGED <<actVars, run_pc, pattern_pc, web_pc, pattern_sleep, webVars, decVars,
                   ledVars>>

\* the body raises before it has written anything; the handler of lines 113-115
\* awaits asyncio.sleep(1)
coop_sensor_fault ==
    /\ run_pc = "running"
    /\ current = "sensor"
    /\ sensor_pc = "running"
    /\ current' = "none"
    /\ sensor_pc' = "sleeping"
    /\ sensor_sleep' = 1000
    /\ UNCHANGED <<actVars, run_pc, pattern_pc, web_pc, pattern_sleep, webVars, decVars,
                   ledVars>>

\* the scheduler resumes pattern_task at the top of its loop (line 123)
coop_pattern_resume ==
    /\ run_pc = "running"
    /\ current = "none"
    /\ pattern_pc = "ready"
    /\ current' = "pattern"
    /\ pattern_pc' = "running"
    /\ UNCHANGED <<actVars, run_pc, sensor_pc, web_pc, sensor_sleep, pattern_sleep, webVars,
                   decVars, ledVars>>

\* self.leds.render_pattern() (line 126)
coop_render ==
    /\ run_pc = "running"
    /\ current = "pattern"
    /\ pattern_pc = "running"
    /\ render_pattern
    /\ pattern_pc' = "rendered"
    /\ UNCHANGED <<current, actVars, run_pc, sensor_pc, web_pc, sensor_sleep, pattern_sleep,
                   webVars, decVars, histVars>>

\* get_pattern() and the await it selects (lines 129-143)
coop_pattern_suspend ==
    /\ run_pc = "running"
    /\ current = "pattern"
    /\ AwaitsAt(pattern_pc)
    /\ current' = "none"
    /\ pattern_pc' = "sleeping"
    /\ pattern_sleep' = PatternSleepMs(pattern)
    /\ UNCHANGED <<actVars, run_pc, sensor_pc, web_pc, sensor_sleep, webVars, decVars,
                   ledVars>>

\* the body raises before it has written anything; the handler of lines 145-147
\* awaits asyncio.sleep(1)
coop_pattern_fault ==
    /\ run_pc = "running"
    /\ current = "pattern"
    /\ pattern_pc = "running"
    /\ current' = "none"
    /\ pattern_pc' = "sleeping"
    /\ pattern_sleep' = 1000
    /\ UNCHANGED <<actVars, run_pc, sensor_pc, web_pc, sensor_sleep, webVars, decVars,
                   ledVars>>

\* a sleep ends: the task is ready to be resumed
coop_wake ==
    /\ run_pc = "running"
    /\ \/ /\ sensor_pc = "sleeping"
          /\ sensor_pc' = "ready"
          /\ sensor_sleep' = 0
          /\ UNCHANGED <<pattern_pc, pattern_sleep>>
       \/ /\ pattern_pc = "sleeping"
          /\ pattern_pc' = "ready"
          /\ pattern_sleep' = 0
          /\ UNCHANGED <<sensor_pc, sensor_sleep>>
    /\ UNCHANGED <<current, actVars, run_pc, web_pc, webVars, decVars, ledVars>>

\* the server has read a request and calls its handler
coop_web_accept(req) ==
    /\ run_pc = "running"
    /\ current = "none"
    /\ web_pc = "serving"
    /\ current' = "web"
    /\ web_pc' = "handling"
    /\ request' = req
    /\ UNCHANGED <<actVars, run_pc, sensor_pc, pattern_pc, sensor_sleep, pattern_sleep,
                   response, decVars, ledVars>>

\* the handler's body, from request.json to its return (web_server.py lines 35-96)
coop_web_handle ==
    /\ run_pc = "running"
    /\ current = "web"
    /\ web_pc = "handling"
    /\ Handle(request)
    /\ web_pc' = "handled"
    /\ UNCHANGED <<current, request, run_pc, sensor_pc, pattern_pc, sensor_sleep,
                   pattern_sleep, histVars>>

\* the server awaits the sending of the response
coop_web_suspend ==
    /\ run_pc = "running"
    /\ current = "web"
    /\ AwaitsAt(web_pc)
    /\ current' = "none"
    /\ web_pc' = "serving"
    /\ request' = NoRequest
    /\ response' = NoResponse
    /\ UNCHANGED <<actVars, run_pc, sensor_pc, pattern_pc, sensor_sleep, pattern_sleep,
                   decVars, ledVars>>

\* KeyboardInterrupt or an exception leaving the server while the scheduler
\* waits (main.py lines 176-183)
coop_stop ==
    /\ run_pc = "running"
    /\ current = "none"
    /\ run_pc' = "returned"
    /\ cleanup
    /\ UNCHANGED <<current, sensor_pc, pattern_pc, web_pc, sensor_sleep, pattern_sleep,
                   webVars, decVars, histVars>>

-----------------------------------------------------------------------------
(* Inputs explored for the ring's operations *)

ColorInputs == { <<-1, 128, 300>> }
WhiteInputs == { -1, 300 }
HexInputs ==
    { <<"#", "f", "f", "8", "0", "0", "0">>,      \* "#ff8000"
      <<"1", "2", "3", "4", "5">>,                  \* "12345": five digits
      <<"z", "z", "0", "0", "0", "0">>,             \* "zz0000": no hex number
      <<"#", "f", "f">>,                            \* "#ff": too short
      <<>> }                                        \* ""
\* the six patterns and a name render_pattern does not know
PatternInputs == Patterns \cup {"sparkle"}
\* set_pixel calls: <<index, r, g, b, w>>, w being <<>> for None
PixelInputs == { <<0, -1, 256, 300, <<>>>>,
                 <<-1, 1, 2, 3, <<4>>>>, <<NEOPIXEL_COUNT, 1, 2, 3, <<>>>> }

-----------------------------------------------------------------------------
(* The specifications *)

\* --- the decoder alone: SpecDecoder ---
InitDecoder ==
    /\ \E s \in Streams : DecoderInit(s)
    /\ LedInit(TRUE)
    /\ SysInit

NextDecoder ==
    \/ ByteArrives /\ UNCHANGED <<ledVars, sysVars>>
    \/ read_data_no_uart /\ UNCHANGED <<ledVars, sysVars>>
    \/ read_frame_begin /\ UNCHANGED <<ledVars, sysVars>>
    \/ read_frame_byte /\ UNCHANGED <<ledVars, sysVars>>
    \/ read_frame_timeout /\ UNCHANGED <<ledVars, sysVars>>

SpecDecoder == InitDecoder /\ [][NextDecoder]_vars

\* --- the ring alone: SpecLed (every operation, a few renders) and SpecFade
\* --- (solid and fade only, renders past one full fade)
LedSetColor ==
    /\ \E c \in ColorInputs : set_color(c[1], c[2], c[3])
    /\ last_set' = <<"none", 0>>
    /\ UNCHANGED <<renders, since_set, target_at_set, decVars, sysVars>>

LedSetColorHex ==
    /\ \E h \in HexInputs : set_color_hex(h)
    /\ last_set' = <<"none", 0>>
    /\ UNCHANGED <<renders, since_set, target_at_set, decVars, sysVars>>

LedSetWhite ==
    /\ \E w \in WhiteInputs : set_white(w)
    /\ last_set' = <<"none", 0>>
    /\ UNCHANGED <<renders, since_set, target_at_set, decVars, sysVars>>

LedSetPattern(names) ==
    /\ \E p \in names :
          /\ set_pattern(p)
          /\ last_set' = IF last_set[1] = p THEN <<p, 2>> ELSE <<p, 1>>
    /\ since_set' = 0
    /\ target_at_set' = fade_target_color
    /\ UNCHANGED <<renders, decVars, sysVars>>

LedClear ==
    /\ clear
    /\ last_set' = <<"none", 0>>
    /\ UNCHANGED <<renders, since_set, target_at_set, decVars, sysVars>>

LedSetPixel ==
    /\ \E a \in PixelInputs : set_pixel_call(a[1], a[2], a[3], a[4], a[5])
    /\ last_set' = <<"none", 0>>
    /\ UNCHANGED <<renders, since_set, target_at_set, decVars, sysVars>>

LedRender(budget) ==
    /\ renders < budget
    /\ render_pattern
    /\ renders' = renders + 1
    /\ since_set' = since_set + 1
    /\ last_set' = <<"none", 0>>
    /\ UNCHANGED <<target_at_set, decVars, sysVars>>

InitLed ==
    /\ DecoderInit(SilentStream)
    /\ \E x \in BOOLEAN : LedInit(x)
    /\ SysInit

NextLed ==
    \/ LedSetColor
    \/ LedSetColorHex
    \/ LedSetWhite
    \/ LedSetPattern(PatternInputs)
    \/ LedClear
    \/ LedSetPixel
    \/ LedRender(MaxRenders)

SpecLed == InitLed /\ [][NextLed]_vars

NextFade ==
    \/ LedSetPattern({"solid", "fade"})
    \/ LedRender(FADE_STEPS + MaxExtraRenders)

SpecFade == InitLed /\ [][NextFade]_vars

\* --- the fire pattern: renders past one full transition, all of them with fire
\* --- selected, and switches to solid and back in between
LedRenderFire ==
    /\ pattern = "fire"
    /\ LedRender(FIRE_STEPS + MaxExtraRenders)

NextFire ==
    \/ LedSetPattern({"solid", "fire"})
    \/ LedRenderFire

SpecFire == InitLed /\ [][NextFire]_vars

\* ---- the whole lamp ----

SmaInputs == {-5, 50, 150}

Requests ==
    {Req("GET", path, NoData) : path \in {"/api/pump", "/api/sma", "/api/leds", "/api/radar"}}
    \cup {Req("POST", "/api/pump", d) :
            d \in {NoData, [on |-> TRUE], [on |-> FALSE], [state |-> TRUE]}}
    \cup {Req("POST", "/api/sma", [percent |-> v]) : v \in SmaInputs}
    \cup {Req("POST", "/api/sma", [duty |-> 50])}
    \cup {Req("POST", "/api/leds", [hex |-> h]) : h \in HexInputs}
    \cup {Req("POST", "/api/leds", d) :
            d \in {NoData, [r |-> 300, g |-> -1, b |-> 128], [r |-> 10, g |-> 20],
                   [pattern |-> "sparkle"], [pattern |-> "fade"]}}
    \cup {Req("POST", "/api/leds/white", d) :
            d \in {NoData, [brightness |-> 300]}}

\* the sensor sends one report frame
SysStream == FramedStream("single", <<>>, TargetReport(3), <<>>)

InitSys ==
    /\ DecoderInit(SysStream)
    /\ LedInit(TRUE)
    /\ SysInit

NextSys ==
    \/ wifi_fails
    \/ wifi_connects
    \/ sensor_task_step
    \/ sensor_task_fault
    \/ sensor_task_wake
    \/ pattern_task_step
    \/ pattern_task_fault
    \/ pattern_task_wake
    \/ \E req \in Requests : web_request(req)
    \/ web_respond
    \/ web_server_fault
    \/ keyboard_interrupt

SpecSys == InitSys /\ [][NextSys]_vars

(* Specification of the tasks step by step *)

CoopRequests ==
    { Req("GET", "/api/radar", NoData), Req("GET", "/api/leds", NoData),
      Req("POST", "/api/leds", [hex |-> <<"#", "f", "f", "8", "0", "0", "0">>]),
      Req("POST", "/api/leds", [hex |-> <<"#", "f", "f">>]),
      Req("POST", "/api/sma", [percent |-> 150]),
      Req("POST", "/api/pump", [on |-> TRUE]) }

CoopReadSizes == {0, Len(stream.bytes) - Consumed, SysSplit}

InitCoop == InitSys

NextCoop ==
    \/ wifi_connects
    \/ coop_sensor_resume
    \/ \E k \in CoopReadSizes : coop_read_data_replace(k)
    \/ coop_read_data_store_gpio
    \/ coop_sensor_suspend
    \/ coop_sensor_fault
    \/ coop_pattern_resume
    \/ coop_render
    \/ coop_pattern_suspend
    \/ coop_pattern_fault
    \/ coop_wake
    \/ \E req \in CoopRequests : coop_web_accept(req)
    \/ coop_web_handle
    \/ coop_web_suspend
    \/ coop_stop

SpecCoop == InitCoop /\ [][NextCoop]_vars

(* Specification of the timed decoder *)

InitPoll ==
    /\ \E s \in PollStreams : DecoderInit(s)
    /\ LedInit(TRUE)
    /\ SysInit

NextPoll ==
    \/ timed_byte_arrives
    \/ timed_read_frame_begin
    \/ timed_read_frame_idle
    \/ timed_read_frame_byte
    \/ timed_read_frame_timeout

\* the processor goes on executing the loop: _read_frame does not await, so
\* nothing else runs until it returns
SpecPoll ==
    /\ InitPoll
    /\ [][NextPoll]_vars
    /\ WF_vars(timed_read_frame_idle)
    /\ WF_vars(timed_read_frame_byte)
    /\ WF_vars(timed_read_frame_timeout)

\* connect_wifi returns (its wait is bounded, lines 40-88), and the uasyncio
\* scheduler is fair: a task whose sleep has elapsed is woken, a woken task gets
\* its turn, and a handler that has started answers (start_tasks, lines 149-159)
sensor_task_body == sensor_task_step \/ sensor_task_fault
pattern_task_body == pattern_task_step \/ pattern_task_fault

SpecSysFair ==
    /\ SpecSys
    /\ WF_vars(wifi_fails \/ wifi_connects)
    /\ WF_vars(sensor_task_wake)
    /\ WF_vars(sensor_task_body)
    /\ WF_vars(pattern_task_wake)
    /\ WF_vars(pattern_task_body)
    /\ WF_vars(web_respond)

-----------------------------------------------------------------------------
(* Claims about the decoder, checked under SpecDecoder *)

\* the whole stream has arrived and been read, and no call is running
StreamDone ==
    sent = Len(stream.bytes) /\ uart_rx = <<>> /\ rpc = "idle"

\* the end (exclusive offset) of the stream's valid frame
ValidEnd == stream.at + Len(stream.valid)

EmittedSet == {emitted[i] : i \in DOMAIN emitted}

\* C1 (as claimed): for a stream of garbage and at most one valid frame, however
\* its bytes arrive across read_data calls, the decoder returns no frame but the
\* valid one, and once the stream is read it has returned exactly that frame.
C1_ChunkIndependence ==
    stream.kind \in {"single", "garbage"} =>
        /\ EmittedSet \subseteq {stream.valid} \ {<<>>}
        /\ Len(emitted) <= 1
        /\ StreamDone => emitted = (IF stream.valid = <<>> THEN <<>> ELSE <<stream.valid>>)

\* C2 (as claimed): a frame with a corrupted footer does not block the valid
\* frame after it: a _read_frame call that began at the corrupt frame and has
\* read the last byte of the later valid frame has returned (it is not still
\* waiting for more bytes with the valid frame lost in its buffer).
C2_Resynchronization ==
    stream.kind = "resync" =>
        ~(rpc = "reading" /\ call_start = 0 /\ Consumed >= ValidEnd)

\* a frame that validates in full: the header first, the size the length field
\* declares, the footer last
FullyValidated(f) ==
    /\ Len(f) >= 10
    /\ SubSeq(f, 1, 4) = <<244, 243, 242, 241>>
    /\ Len(f) = 4 + 2 + (f[5] + 256 * f[6]) + 4
    /\ SubSeq(f, Len(f) - 3, Len(f)) = <<248, 247, 246, 245>>

\* the returned frames that are target reports, in the order returned
ReportsEmitted == SelectSeq(emitted, LAMBDA f : Len(f) >= 23 /\ f[7] = 2 /\ f[8] = 170)

\* C3: every frame _read_frame returns is fully validated, and the seven
\* frame-derived fields of the cache are, all together, either the defaults (no
\* report returned yet) or the fields of the last report frame returned.
C3_OnlyValidatedFrames ==
    /\ \A i \in DOMAIN emitted : FullyValidated(emitted[i])
    /\ FrameKeys \subseteq DOMAIN last_data
    /\ IF ReportsEmitted = <<>>
       THEN \A k \in FrameKeys : last_data[k] = (IF k = "presence" THEN FALSE ELSE 0)
       ELSE LET f == ReportsEmitted[Len(ReportsEmitted)] IN
            /\ last_data["presence"] = (f[9] # 0)
            /\ last_data["target_state"] = f[9]
            /\ last_data["moving_distance"] = f[10] + 256 * f[11]
            /\ last_data["moving_energy"] = f[12]
            /\ last_data["static_distance"] = f[13] + 256 * f[14]
            /\ last_data["static_energy"] = f[15]
            /\ last_data["detection_distance"] = f[16] + 256 * f[17]

\* C3's case: a corrupt frame was passed over, the valid report after it was
\* returned, and the cache holds its fields
C3_Witness ==
    /\ stream.kind = "resync"
    /\ emitted = <<stream.valid>>
    /\ last_data["target_state"] = 1
    /\ last_data["detection_distance"] = 306

\* the payload of a frame: what lies between the length field and the footer
PayloadOf(f) == SubSeq(f, 7, Len(f) - 4)

\* C4: round trip. For a payload framed as _send_command frames it, every frame
\* the decoder returns carries exactly that payload, and a _read_frame call that
\* was fed the whole encoding, byte by byte, has returned it (it is not still
\* waiting after the encoding's last byte).
C4_RoundTrip ==
    stream.kind = "single" =>
        /\ \A i \in DOMAIN emitted : PayloadOf(emitted[i]) = stream.payload
        /\ ~(rpc = "reading" /\ call_start <= stream.at /\ Consumed >= ValidEnd)

\* C4's case: a payload that is itself the header pattern has come back
C4_Witness ==
    /\ stream.kind = "single"
    /\ stream.payload = <<244, 243, 242, 241>>
    /\ Len(emitted) = 1
    /\ PayloadOf(emitted[1]) = stream.payload
    /\ Consumed = ValidEnd

\* C5 (as claimed): once the scenario's 20 bytes are read, one frame has been
\* returned and the cache holds target_state 2, moving 0x32/0x0A, static 0x64/0x64.
C5_ScenarioAsClaimed ==
    (stream.kind = "scenario" /\ StreamDone) =>
        /\ Len(emitted) = 1
        /\ last_data["target_state"] = 2
        /\ last_data["moving_distance"] = 50
        /\ last_data["moving_energy"] = 10
        /\ last_data["static_distance"] = 100
        /\ last_data["static_energy"] = 100

\* C5 (amended): the scenario's length field (0x11) declares 17 payload bytes
\* where 10 follow, so whatever the chunking the decoder returns no frame for
\* these 20 bytes and the seven frame-derived fields keep their initial values.
C5_ScenarioNoFrame ==
    stream.kind = "scenario" =>
        /\ emitted = <<>>
        /\ \A k \in FrameKeys : last_data[k] = InitLastData[k]

\* C5's case: the 20 bytes have all been read and the read_data call that read
\* the last of them has ended
C5_Witness ==
    /\ stream.kind = "scenario"
    /\ StreamDone
    /\ "presence_gpio" \in DOMAIN last_data

\* this step completes a valid target report: _read_frame returns a frame of
\* at least 23 bytes tagged 0x02 0xAA
CompletesReport ==
    /\ emitted' # emitted
    /\ LET f == emitted'[Len(emitted')] IN Len(f) >= 23 /\ f[7] = 2 /\ f[8] = 170

\* C11: stale-but-available. A step of read_data that does not complete a valid
\* target report (no bytes, a timeout, a footer mismatch, a frame too short or
\* with another tag) leaves the seven frame-derived fields as they were.
C11_StaleButAvailable ==
    [][~CompletesReport =>
          \A k \in FrameKeys : k \in DOMAIN last_data' /\ last_data'[k] = last_data[k]]_vars

\* C11's case: a report was decoded, a later call read the byte after it and
\* timed out, and the cache still holds the report's fields
C11_Witness ==
    /\ stream.kind = "single"
    /\ stream.payload = TargetReport(2)
    /\ Len(stream.bytes) > ValidEnd
    /\ StreamDone
    /\ emitted = <<stream.valid>>
    /\ last_data["target_state"] = 2
    /\ last_data["static_distance"] = 100

\* the buffer holds a complete valid frame at its first header
HoldsCompleteFrame(b) ==
    LET h == Find(b, <<244, 243, 242, 241>>) IN
    /\ h >= 0
    /\ Len(b) >= h + 10
    /\ LET size == h + 10 + b[h + 5] + 256 * b[h + 6] IN
       /\ Len(b) >= size
       /\ SubSeq(b, size - 3, size) = <<248, 247, 246, 245>>

\* C17 (as claimed): after a footer mismatch the header search is retried at
\* once on the bytes kept, so _read_frame is never waiting for a byte while the
\* bytes it keeps hold a complete valid frame.
C17_ImmediateRetry ==
    ~(rpc = "reading" /\ HoldsCompleteFrame(buffer))

\* C13 (as claimed): in every state, the first included, the snapshot get_state
\* returns has all eight fields, the frame-derived ones at zero/false until a
\* report has been decoded.
C13_EightFields ==
    /\ DOMAIN sensor_get_state = FrameKeys \cup {"presence_gpio"}
    /\ ReportsEmitted = <<>> =>
          \A k \in FrameKeys : sensor_get_state[k] = (IF k = "presence" THEN FALSE ELSE 0)

\* C20: a _read_frame call reads no byte once its timeout has elapsed, and every
\* call returns, whatever the stream: endless, stopping mid-frame, or declaring
\* a length of 65535.
C20_PollBounded ==
    /\ [][(rpc = "reading" /\ ticks >= PollTimeout) => Len(uart_rx') >= Len(uart_rx)]_vars
    /\ (rpc = "reading") ~> (rpc = "idle")

\* a call on the endless stream declaring 65535 bytes has run until its timeout
\* with the header and the length buffered
C20_Witness ==
    /\ stream.kind = "endless" /\ Len(stream.bytes) = 12 /\ stream.bytes[5] = 255
    /\ rpc = "reading" /\ ticks = PollTimeout
    /\ Len(buffer) >= 10 /\ Find(buffer, FRAME_HEADER) >= 0
    /\ uart_rx # <<>>


\* C22: the cached target_state is always one of 0, 1, 2, 3, and the cached
\* presence flag says whether it differs from 0.
C22_TargetStateEnum ==
    /\ last_data["target_state"] \in 0..3
    /\ last_data["presence"] = (last_data["target_state"] # 0)

-----------------------------------------------------------------------------
(* Claims about the ring, checked under SpecLed and SpecFade *)

\* the pattern-private variables hold the values __init__ gives them
PrivateInitial ==
    /\ breathe_phase = 0
    /\ fade_current_color = <<255, 0, 0>>
    /\ fade_target_color = <<0, 255, 0>>
    /\ fade_progress = 0
    /\ rainbow_offset = 0
    /\ dream_phase = 0
    /\ dream_hue = 0
    /\ fire_current = <<255, 180, 50, 100>>
    /\ fire_target = <<255, 200, 30, 120>>
    /\ fire_progress = 0

\* C6 (as claimed): every step that changes the active pattern leaves all the
\* pattern-private variables at their initial values.
C6_ResetOnSwitch ==
    [][(pattern' # pattern) => PrivateInitial']_vars

\* C9 (as claimed): 100 renders after the pattern was set to fade, the fade's
\* current colour is the target that was in effect when it was set, a new target
\* with every channel in 50..255 has been drawn, and the progress is 0.
C9_FadeCompletes ==
    (pattern = "fade" /\ since_set = FADE_STEPS) =>
        /\ fade_current_color = target_at_set
        /\ \A k \in 1..3 : fade_target_color[k] \in 50..255
        /\ fade_progress = 0

\* C14: a render_pattern call changes neither the base colour, nor the white
\* level, nor the selected pattern, whatever the pattern and the state.
C14_RenderKeepsCommanded ==
    [][(renders' # renders) =>
          (color' = color /\ white' = white /\ pattern' = pattern)]_vars

\* C14's case: breathe has rendered a commanded colour dimmed, and the base
\* colour and white level are still the commanded ones
C14_Witness ==
    /\ renders >= 1
    /\ pattern = "breathe"
    /\ breathe_phase = 10
    /\ color = <<0, 128, 255>>
    /\ rgbw /\ white = 255
    /\ np[0] = <<0, 83, 165, 165>>

\* C16: pattern switch idempotence. A set_pattern(p) call that directly follows
\* a set_pattern(p) call changes nothing of the engine: pattern, base colour,
\* white level, pattern-private variables and LED output are as the first call
\* left them.
C16_SetPatternIdempotent ==
    [][(last_set'[2] = 2) =>
          /\ pattern' = pattern /\ color' = color /\ white' = white
          /\ privVars' = privVars
          /\ np' = np]_vars

\* C16's case: after a render of fade, solid was selected twice in a row and
\* the LEDs show the base colour
C16_Witness ==
    /\ last_set = <<"solid", 2>>
    /\ fade_progress = 1
    /\ color = <<0, 128, 255>>
    /\ np[0] = <<0, 128, 255, 0>>

\* C10 (as claimed): every channel of every pixel of the LED array is in 0..255.
C10_ChannelsInRange ==
    \A i \in Pixels : \A k \in DOMAIN np[i] : np[i][k] \in 0..255


\* the warm ranges of the fire colours (R, G, B, W)
Warm(c) == c[1] \in 220..255 /\ c[2] \in 100..220 /\ c[3] \in 0..60 /\ c[4] \in 50..180

\* C23: the fire progress is in 0..149 and counts the fire renders modulo 150,
\* the fire colours are warm, and the 150th fire render, and only it, makes the
\* target the current colour, draws a new warm target and resets the progress.
C23_FireCycle ==
    /\ [](/\ fire_progress \in 0..(FIRE_STEPS - 1)
          /\ fire_progress = renders % FIRE_STEPS
          /\ Warm(fire_current) /\ Warm(fire_target))
    /\ [][(renders' # renders) =>
             IF renders' % FIRE_STEPS = 0
             THEN fire_current' = fire_target /\ Warm(fire_target') /\ fire_progress' = 0
             ELSE fire_current' = fire_current /\ fire_target' = fire_target]_vars
    /\ [][(renders' = renders) =>
             <<fire_current, fire_target, fire_progress>>' =
             <<fire_current, fire_target, fire_progress>>]_vars

\* one render past the first full transition, after a switch to solid and back
C23_Witness ==
    /\ renders = FIRE_STEPS + 1 /\ since_set < renders /\ pattern = "fire"
    /\ fire_progress = 1
    /\ fire_current = <<255, 200, 30, 120>>
    /\ fire_target = <<220, 100, 60, 180>>


\* C24: a set_white call leaves the RGB base colour as it was, on RGBW and on
\* RGB-only rings, and a set_color or set_color_hex call leaves the white level
\* as it was.
C24_WhiteOnlyWhite ==
    [][/\ (\E w \in WhiteInputs : set_white(w)) => color' = color
       /\ ((\E c \in ColorInputs : set_color(c[1], c[2], c[3]))
             \/ (\E h \in HexInputs : set_color_hex(h))) => white' = white]_vars

-----------------------------------------------------------------------------
(* Claims about the whole lamp, checked under SpecSys *)

\* the body of an activity raises in this step
FaultRaised ==
    \/ sensor_sleep' = 1000 /\ sensor_sleep # 1000
    \/ pattern_sleep' = 1000 /\ pattern_sleep # 1000
    \/ web_pc' = "raised" /\ web_pc # "raised"

\* C7 (as claimed): a step in which the body of one of the three activities
\* raises a fault leaves the scheduler running, so the other two go on.
C7_FaultIsolation ==
    [][FaultRaised => run_pc' = "running"]_vars

HexDigits == {HexLower[i] : i \in DOMAIN HexLower} \cup {HexUpper[i] : i \in DOMAIN HexUpper}

\* a colour string that is six hex digits, with or without one leading "#"
SixHexDigits(h) ==
    LET t == IF h # <<>> /\ h[1] = "#" THEN Tail(h) ELSE h IN
    Len(t) = 6 /\ \A i \in 1..6 : t[i] \in HexDigits

\* a POST request that is malformed: a required field is missing, the hex
\* string is not six hex digits, or the pattern name is unknown
Malformed(req) ==
    /\ req.method = "POST"
    /\ CASE req.path = "/api/pump" -> ~Has(req.data, "on")
         [] req.path = "/api/sma"  -> ~Has(req.data, "percent")
         [] req.path = "/api/leds" ->
                \/ Has(req.data, "hex") /\ ~SixHexDigits(req.data["hex"])
                \/ Has(req.data, "pattern") /\ req.data["pattern"] \notin Patterns
                \/ /\ ~Has(req.data, "hex")
                   /\ ~Has(req.data, "pattern")
                   /\ ~({"r", "g", "b"} \subseteq DOMAIN req.data)
         [] req.path = "/api/leds/white" -> ~Has(req.data, "brightness")

\* pump, SMA duty, LED colour, white, pattern and sensor state
DeviceState == <<pump_state, pump_pin, sma_percent, sma_duty, color, white, pattern, last_data>>

\* C8 (as claimed): a handler step for a malformed POST request answers with a
\* 4xx status, changes nothing of the device state and leaves the scheduler
\* running.
C8_MalformedRejected ==
    [][(web_pc = "serving" /\ web_pc' = "responding" /\ Malformed(request')) =>
            /\ response'.status \in 400..499
            /\ DeviceState' = DeviceState
            /\ run_pc' = "running"]_vars

\* the steps of the three activities: a pass of sensor_task's body that ends
\* without a fault, such a pass of pattern_task's body, a request handler
SensorStep == sensor_pc = "ready" /\ sensor_pc' = "sleeping" /\ sensor_sleep' # 1000
PatternStep == pattern_pc = "ready" /\ pattern_pc' = "sleeping" /\ pattern_sleep' # 1000
HandlerStep == web_pc = "serving" /\ web_pc' = "responding"

\* C12 (as claimed): while the scheduler runs, the sensor state changes only in
\* a step of the sensor activity, the LED output only in a step of the animation
\* activity, and a request handler changes neither of them.
C12_SingleWriter ==
    [][(run_pc = "running" /\ run_pc' = "running") =>
          /\ (last_data' # last_data) => SensorStep
          /\ (np' # np) => PatternStep
          /\ HandlerStep => (last_data' = last_data /\ np' = np)]_vars

\* the intervals the animation activity is to sleep, in milliseconds
ClaimedInterval(p) ==
    CASE p = "solid"   -> 100
      [] p = "breathe" -> 30
      [] p = "fade"    -> 50
      [] p = "rainbow" -> 50
      [] p = "fire"    -> 60
      [] p = "dream"   -> 30

\* a request that selects one of the six patterns
SelectsPattern(req) ==
    /\ req.method = "POST"
    /\ req.path = "/api/leds"
    /\ Has(req.data, "pattern")
    /\ req.data["pattern"] \in Patterns

\* C15 (as claimed): every pass of the animation activity sleeps for the
\* interval of the pattern active at that moment, and a request that selects a
\* pattern makes it the active one, so that the next pass renders it and sleeps
\* for its interval.
C15_PatternCadence ==
    [][/\ PatternStep => pattern_sleep' = ClaimedInterval(pattern')
       /\ (HandlerStep /\ SelectsPattern(request')) =>
              pattern' = request'.data["pattern"]]_vars

\* the process was shut down from outside (KeyboardInterrupt) or never started
\* its activities (no WiFi): run has returned and no activity raised
Interrupted == run_pc = "returned" /\ web_pc # "raised"

SensorBackoff == sensor_pc = "sleeping" /\ sensor_sleep = 1000
PatternBackoff == pattern_pc = "sleeping" /\ pattern_sleep = 1000

\* C18: a fault in the sensor or the animation body ends the pass in a backoff of
\* 1000 ms, longer than every normal interval, and unless the process is shut down
\* the activity always comes back from the backoff and runs its body again.
C18_FaultRetried ==
    /\ [](\A p \in Patterns \cup {"other"} : PatternSleepMs(p) < 1000)
    /\ SensorBackoff ~> (sensor_pc = "ready" \/ Interrupted)
    /\ PatternBackoff ~> (pattern_pc = "ready" \/ Interrupted)
    /\ (sensor_pc = "ready" /\ run_pc = "running") ~> (sensor_pc = "sleeping" \/ Interrupted)
    /\ (pattern_pc = "ready" /\ run_pc = "running") ~> (pattern_pc = "sleeping" \/ Interrupted)

\* C19: unless the process is shut down, each of the three activities runs
\* infinitely often, whatever the others do: the sensor pass and the animation pass
\* keep alternating between their body and their sleep, and the server keeps
\* coming back to accept a request.
C19_NoStarvation ==
    \/ <>Interrupted
    \/ /\ []<>(sensor_pc = "ready") /\ []<>(sensor_pc = "sleeping")
       /\ []<>(pattern_pc = "ready") /\ []<>(pattern_pc = "sleeping")
       /\ []<>(web_pc = "serving")

\* the activity is inside its body: resumed, and not yet back at an await
InBody(a) ==
    CASE a = "sensor"  -> sensor_pc \in {"running", "mid", "written"}
      [] a = "pattern" -> pattern_pc \in {"running", "rendered"}
      [] a = "web"     -> web_pc \in {"handling", "handled"}

AtLoopTop(a) ==
    CASE a = "sensor"  -> sensor_pc = "ready"
      [] a = "pattern" -> pattern_pc = "ready"
      [] a = "web"     -> web_pc = "serving"

\* C21: while the scheduler runs, the only activity inside its body is the one
\* the scheduler resumed last, so none is suspended with an update half done
\* and none sees another's; an activity is resumed only when no other is inside
\* its body and when it is itself at the top of its loop.
C21_NoHalfFinishedUpdate ==
    /\ [](run_pc = "running" => \A a \in Activities : InBody(a) <=> current = a)
    /\ [][\A a \in Activities :
              (current' = a /\ current # a) => (current = "none" /\ AtLoopTop(a))]_vars

\* the web activity has answered GET /api/radar with a whole report (GPIO level
\* included) while the sensor and animation activities are suspended in their
\* sleeps after a completed pass
C21_Witness ==
    /\ current = "web" /\ web_pc = "handled" /\ request.path = "/api/radar"
    /\ sensor_pc = "sleeping" /\ sensor_sleep = 100
    /\ pattern_pc = "sleeping"
    /\ response.status = 200 /\ response.body["target_state"] = 3
    /\ "presence_gpio" \in DOMAIN response.body

\* C25: whatever SMA requests have been made, the stored percentage is in 0..100,
\* the PWM duty is floor(percent * 1023 / 100) and in 0..1023, and the state
\* the SMA routes report is the stored percentage.
C25_SmaDutyInRange ==
    /\ [](/\ sma_percent \in 0..100
          /\ sma_duty = (sma_percent * 1023) \div 100
          /\ sma_duty \in 0..1023)
    /\ [][(HandlerStep /\ request'.path = "/api/sma" /\ response'.status = 200)
             => response'.body["percent"] = sma_percent']_vars

\* POST /api/sma with percent 150 has been answered, after a request with -5
C25_Witness ==
    /\ web_pc = "responding" /\ request.method = "POST" /\ request.path = "/api/sma"
    /\ request.data["percent"] = 150
    /\ response.status = 200 /\ response.body["percent"] = 100
    /\ sma_percent = 100 /\ sma_duty = 1023

\* C26: the white value in the answer to POST /api/leds/white is the white
\* level the ring stores after the request, the one GET /api/leds reports.
C26_WhiteEchoIsStored ==
    [][(HandlerStep /\ request'.path = "/api/leds/white" /\ response'.status = 200)
         => response'.body["white"] = leds_get_state(color', white', pattern')["white"]]_vars

\* C27: once run() has returned, by whichever path, the pump is off, the SMA
\* duty is 0, and the base colour, the white level and every pixel are 0.
C27_SafeShutdown ==
    run_pc = "returned" =>
        /\ ~pump_state /\ ~pump_pin
        /\ sma_percent = 0 /\ sma_duty = 0
        /\ color = <<0, 0, 0>> /\ white = 0
        /\ \A i \in Pixels : np[i] = (IF rgbw THEN <<0, 0, 0, 0>> ELSE <<0, 0, 0>>)

\* the server raised while the answer to a request that had switched the pump on
\* was being sent, and run() has returned with the pump off
C27_Witness ==
    /\ run_pc = "returned" /\ web_pc = "raised"
    /\ request.method = "POST" /\ request.path = "/api/pump"
    /\ response.status = 200 /\ response.body["on"]
    /\ ~pump_state

====
